---- MODULE Spec2Model ----
(***************************************************************************)
(* A model of famedly-rust-utils.  Its core is BaseUrl                     *)
(* (src/src/base_url.rs): a URL wrapper that is normalised to a trailing   *)
(* slash when it is constructed and to which path segments are appended    *)
(* with append_path.  The duration wrappers (src/src/duration.rs) and the  *)
(* non-empty strings (src/src/non_empty.rs) are pure functions: a call of  *)
(* one of them is a step from an input to a result.                        *)
(*                                                                         *)
(* Text is a sequence of one-character strings.  A Url is the record of    *)
(* the components the url crate keeps for a parsed URL:                    *)
(*   scheme, authority (is there a "//host" part), host, path, query and   *)
(*   fragment; query and fragment are options: <<>> is None, <<q>> is      *)
(*   Some(q).                                                              *)
(* The modelled texts hold no userinfo, no port digits, no dot segments,   *)
(* no upper case and no white space, so the parser's handling of those is  *)
(* left out; the scheme "file" is not among the modelled schemes.          *)
(***************************************************************************)
EXTENDS Naturals, Sequences, FiniteSets

VARIABLES
    text,      \* the string the BaseUrl is constructed from
    via,       \* the entry point used: "none", "parse", "try_from", "deserialize"
    outcome,   \* "none", "ok", or the error the entry point returned
    url,       \* BaseUrl.url (NoUrl when no BaseUrl exists)
    prev,      \* BaseUrl.url before the latest append_path call
    arg,       \* argument of the latest append_path call
    ret,       \* what the latest append_path call returned: "none", "Ok", "Err"
    appends,   \* number of append_path calls made so far
    call,      \* the pure function that was called, "none" before the call
    param,     \* the argument of that call
    result     \* what the call returned

\* the variables of a BaseUrl
baseVars == <<text, via, outcome, url, prev, arg, ret, appends>>

\* the variables of a call of a pure function
callVars == <<call, param, result>>

vars == <<text, via, outcome, url, prev, arg, ret, appends, call, param, result>>

-----------------------------------------------------------------------------
(* Bounds *)

\* longest free part of a constructor's input text
MaxRest == 4
\* most append_path calls made on one BaseUrl
MaxAppends == 2

\* the small integers given to the duration wrappers are 0 .. MaxSmall
MaxSmall == 8

\* how far around a boundary (an overflow threshold, a whole second) the
\* integers given to the duration wrappers reach
MaxDelta == 2

\* longest string given to the non-empty strings
MaxStr == 4

\* longest string of digits given to the level filter
MaxDigits == 2

\* largest number chained and largest number in an option
MaxVal == 4

-----------------------------------------------------------------------------
(* Text helpers *)

None == <<>>
Some(x) == <<x>>

EndsWithSlash(s) == Len(s) > 0 /\ s[Len(s)] = "/"
StartsWithSlash(s) == Len(s) > 0 /\ s[1] = "/"

\* index of the first character of s that lies in set, Len(s) + 1 when none does
FirstIn(s, set) ==
    LET I == {i \in 1..Len(s) : s[i] \in set}
    IN IF I = {} THEN Len(s) + 1 ELSE CHOOSE i \in I : \A j \in I : i <= j

From(s, i) == SubSeq(s, i, Len(s))
Upto(s, i) == SubSeq(s, 1, i)

RECURSIVE Flatten(_)
Flatten(ss) == IF ss = <<>> THEN <<>> ELSE Head(ss) \o Flatten(Tail(ss))

CharsOf(s) == {s[i] : i \in 1..Len(s)}

\* all sequences over set of length at most n
SeqsUpTo(set, n) == UNION {[1..k -> set] : k \in 0..n}

\* mutant: the leading '/' is kept
StripPrefixSlash_Kept(p) == p

\* mutant: every leading '/' is stripped
RECURSIVE StripPrefixSlash_All(_)
StripPrefixSlash_All(p) ==
    IF p # <<>> /\ Head(p) = "/" THEN StripPrefixSlash_All(Tail(p)) ELSE p

\* str::strip_prefix('/').unwrap_or(path)
StripPrefixSlash(p) == IF StartsWithSlash(p) THEN Tail(p) ELSE p

\* mutant: the string is taken as one segment
SplitSlash_Whole(s) == <<s>>

\* mutant: the string is split at its first '/' only
SplitSlash_Once(s) ==
    LET i == FirstIn(s, {"/"})
    IN IF i > Len(s) THEN <<s>> ELSE <<Upto(s, i - 1), From(s, i + 1)>>

\* str::split('/'): the pieces between the slashes, <<"">> for the empty string
RECURSIVE SplitSlash(_)
SplitSlash(s) ==
    LET i == FirstIn(s, {"/"})
    IN IF i > Len(s) THEN <<s>>
       ELSE <<Upto(s, i - 1)>> \o SplitSlash(From(s, i + 1))

-----------------------------------------------------------------------------
(* The url crate, as far as base_url.rs uses it *)

Alpha == {"a", "b", "h", "i", "l", "m", "o", "p", "s", "t", "w"}
SchemeChars == Alpha \cup {"+", "-", "."}

HTTP == <<"h", "t", "t", "p">>
MAILTO == <<"m", "a", "i", "l", "t", "o">>

\* the special schemes other than file
SpecialSchemes ==
    {HTTP, <<"h", "t", "t", "p", "s">>, <<"w", "s">>, <<"w", "s", "s">>,
     <<"f", "t", "p">>}

IsSpecial(scheme) == scheme \in SpecialSchemes

\* percent-encode sets of the url crate's parser
\* (the double quote and the backtick, and the backslash that special schemes
\* add to the segment set, are not characters of the modelled texts)
PATH_SET == {" ", "<", ">", "#", "?", "{", "}"}
\* mutant: only '/' and '%' are encoded in a segment
PATH_SEGMENT_SET_NoReserved == {"/", "%"}

PATH_SEGMENT_SET == PATH_SET \cup {"/", "%"}

Hex(c) ==
    CASE c = "?" -> <<"%", "3", "F">>
      [] c = "#" -> <<"%", "2", "3">>
      [] c = "/" -> <<"%", "2", "F">>
      [] c = "%" -> <<"%", "2", "5">>
      [] c = " " -> <<"%", "2", "0">>
      [] OTHER -> <<"%", "x", "x">>

\* mutant: nothing is encoded
PercentEncode_None(s, set) == s

\* utf8_percent_encode of s with the given set
PercentEncode(s, set) ==
    Flatten([i \in 1..Len(s) |-> IF s[i] \in set THEN Hex(s[i]) ELSE <<s[i]>>])

NoUrl ==
    [scheme |-> <<>>, authority |-> FALSE, host |-> <<>>, path |-> <<>>,
     query |-> None, fragment |-> None]

\* Url::as_str: the serialization
Serialize(u) ==
    u.scheme \o <<":">>
    \o (IF u.authority THEN <<"/", "/">> \o u.host ELSE <<>>)
    \o u.path
    \o (IF u.query = None THEN <<>> ELSE <<"?">> \o u.query[1])
    \o (IF u.fragment = None THEN <<>> ELSE <<"#">> \o u.fragment[1])

\* Url::cannot_be_a_base: what follows "scheme:" does not start with '/'
CannotBeABase(u) ==
    ~StartsWithSlash((IF u.authority THEN <<"/", "/">> ELSE <<>>) \o u.path)

\* Parser::with_query_and_fragment, on what is left after the path
QueryOf(rest) ==
    IF Len(rest) > 0 /\ rest[1] = "?"
    THEN Some(SubSeq(rest, 2, FirstIn(rest, {"#"}) - 1))
    ELSE None

FragmentOf(rest) ==
    LET i == FirstIn(rest, {"#"})
    IN IF i <= Len(rest) THEN Some(From(rest, i + 1)) ELSE None

\* Parser::parse_path_start in the parser's context: afterHost starts at the
\* first character after the authority
PathAfterAuthority(special, afterHost) ==
    LET e == FirstIn(afterHost, {"?", "#"})
        raw == Upto(afterHost, e - 1)
    IN IF special
       THEN <<"/">> \o PercentEncode(StripPrefixSlash(raw), PATH_SET)
       ELSE PercentEncode(raw, PATH_SET)

ParseErr(e) == [ok |-> FALSE, err |-> e, url |-> NoUrl]
ParseOk(u) == [ok |-> TRUE, err |-> "", url |-> u]

\* Parser::after_double_slash: host, port, path, query, fragment
AfterDoubleSlash(scheme, input) ==
    LET special == IsSpecial(scheme)
        hEnd == FirstIn(input, {":", "/", "?", "#"})
        host == Upto(input, hEnd - 1)
        afterH == From(input, hEnd)
        hasPort == Len(afterH) > 0 /\ afterH[1] = ":"
        afterP == IF hasPort THEN Tail(afterH) ELSE afterH
    IN IF host = <<>> /\ (hasPort \/ special) THEN ParseErr("EmptyHost")
       ELSE IF hasPort /\ Len(afterP) > 0 /\ afterP[1] \notin {"/", "?", "#"}
       THEN ParseErr("InvalidPort")
       ELSE LET e == FirstIn(afterP, {"?", "#"})
            IN ParseOk([scheme |-> scheme, authority |-> TRUE, host |-> host,
                        path |-> PathAfterAuthority(special, afterP),
                        query |-> QueryOf(From(afterP, e)),
                        fragment |-> FragmentOf(From(afterP, e))])

\* Parser::parse_non_special: authority, or a path with no authority, or an
\* opaque (cannot-be-a-base) path
ParseNonSpecial(scheme, input) ==
    IF Len(input) >= 2 /\ input[1] = "/" /\ input[2] = "/"
    THEN AfterDoubleSlash(scheme, From(input, 3))
    ELSE LET e == FirstIn(input, {"?", "#"})
         IN ParseOk([scheme |-> scheme, authority |-> FALSE, host |-> <<>>,
                     path |-> IF StartsWithSlash(input)
                              THEN PercentEncode(Upto(input, e - 1), PATH_SET)
                              ELSE Upto(input, e - 1),
                     query |-> QueryOf(From(input, e)),
                     fragment |-> FragmentOf(From(input, e))])

\* Url::parse with no base URL
UrlParse(input) ==
    LET sEnd == FirstIn(input, CharsOf(input) \ SchemeChars)
    IN IF Len(input) = 0 \/ input[1] \notin Alpha
          \/ sEnd > Len(input) \/ input[sEnd] # ":"
       THEN ParseErr("RelativeUrlWithoutBase")
       ELSE LET scheme == Upto(input, sEnd - 1)
                rest == From(input, sEnd + 1)
            IN IF IsSpecial(scheme)
               \* special authority slashes state: every leading '/' is skipped
               THEN AfterDoubleSlash(scheme,
                        From(rest, FirstIn(rest, CharsOf(rest) \ {"/"})))
               ELSE ParseNonSpecial(scheme, rest)

\* Url::set_path: the path is parsed again in the setter's context, where
\* '?' and '#' are data
SetPath(u, p) ==
    IF CannotBeABase(u)
    THEN [u EXCEPT !.path = IF StartsWithSlash(p)
                            THEN <<"%", "2", "F">> \o Tail(p) ELSE p]
    ELSE [u EXCEPT !.path =
            IF IsSpecial(u.scheme)
            THEN <<"/">> \o PercentEncode(StripPrefixSlash(p), PATH_SET)
            ELSE (IF Len(p) > 0 /\ p[1] # "/" THEN <<"/">> ELSE <<>>)
                 \o PercentEncode(p, PATH_SET)]

\* mutant: the empty last segment stays
PopIfEmpty_Never(path) == path

\* PathSegmentsMut::pop_if_empty, on the path (the query and fragment are
\* taken off the serialization while the path is edited)
PopIfEmpty(path) ==
    IF Len(path) <= 1 THEN path
    ELSE IF path[Len(path)] = "/" THEN Upto(path, Len(path) - 1)
    ELSE path

\* mutant: a '/' is pushed before every segment, also after the root "/"
PushSegment_AlwaysSlash(path, seg) ==
    IF seg \in {<<".">>, <<".", ".">>} THEN path
    ELSE path \o <<"/">> \o PercentEncode(seg, PATH_SEGMENT_SET)

\* mutant: an empty segment is skipped as "." and ".." are
PushSegment_SkipEmpty(path, seg) ==
    IF seg \in {<<>>, <<".">>, <<".", ".">>} THEN path
    ELSE (IF Len(path) > 1 \/ Len(path) = 0 THEN path \o <<"/">> ELSE path)
         \o PercentEncode(seg, PATH_SEGMENT_SET)

\* one round of PathSegmentsMut::extend's loop
PushSegment(path, seg) ==
    IF seg \in {<<".">>, <<".", ".">>} THEN path
    ELSE (IF Len(path) > 1 \/ Len(path) = 0 THEN path \o <<"/">> ELSE path)
         \o PercentEncode(seg, PATH_SEGMENT_SET)

\* PathSegmentsMut::extend
RECURSIVE Extend(_, _)
Extend(path, segs) ==
    IF segs = <<>> THEN path
    ELSE Extend(PushSegment(path, Head(segs)), Tail(segs))

-----------------------------------------------------------------------------
(* base_url.rs *)

\* mutant: no slash is added
add_trailing_slash_Never(u) == u

\* mutant: a slash is added whether or not the path has one
add_trailing_slash_Always(u) == SetPath(u, u.path \o <<"/">>)

\* fn add_trailing_slash
add_trailing_slash(u) ==
    IF ~EndsWithSlash(u.path) THEN SetPath(u, u.path \o <<"/">>) ELSE u

\* mutant: cannot_be_a_base is not looked at
TryFromUrl_Unchecked(u) ==
    [ok |-> TRUE, err |-> "", url |-> add_trailing_slash(u)]

\* mutant: the URL is wrapped as it is, without the trailing slash
TryFromUrl_NoSlash(u) ==
    IF CannotBeABase(u) THEN [ok |-> FALSE, err |-> "Err", url |-> NoUrl]
    ELSE [ok |-> TRUE, err |-> "", url |-> u]

\* impl TryFrom<Url> for BaseUrl
TryFromUrl(u) ==
    IF CannotBeABase(u) THEN [ok |-> FALSE, err |-> "Err", url |-> NoUrl]
    ELSE [ok |-> TRUE, err |-> "", url |-> add_trailing_slash(u)]

\* mutant: every failure is reported as UrlParseError
from_str_OneError(input) ==
    LET p == UrlParse(input)
    IN IF ~p.ok \/ ~TryFromUrl(p.url).ok
       THEN [ok |-> FALSE, err |-> "UrlParseError", url |-> NoUrl]
       ELSE TryFromUrl(p.url)

\* impl FromStr for BaseUrl
from_str(input) ==
    LET p == UrlParse(input)
    IN IF ~p.ok THEN [ok |-> FALSE, err |-> "UrlParseError", url |-> NoUrl]
       ELSE LET t == TryFromUrl(p.url)
            IN IF ~t.ok THEN [ok |-> FALSE, err |-> "IsNotBaseUrl", url |-> NoUrl]
               ELSE t

\* mutant: a URL that cannot be a base is deserialized all the same
deserialize_url_with_trailing_slash_Unchecked(input) ==
    LET p == UrlParse(input)
    IN IF ~p.ok THEN [ok |-> FALSE, err |-> "DeError: invalid url", url |-> NoUrl]
       ELSE [ok |-> TRUE, err |-> "", url |-> add_trailing_slash(p.url)]

\* mutant: the deserialized URL is left as it was written
deserialize_url_with_trailing_slash_NoSlash(input) ==
    LET p == UrlParse(input)
    IN IF ~p.ok THEN [ok |-> FALSE, err |-> "DeError: invalid url", url |-> NoUrl]
       ELSE IF CannotBeABase(p.url)
       THEN [ok |-> FALSE, err |-> "DeError: Url cannot be a base", url |-> NoUrl]
       ELSE [ok |-> TRUE, err |-> "", url |-> p.url]

\* fn deserialize_url_with_trailing_slash
deserialize_url_with_trailing_slash(input) ==
    LET p == UrlParse(input)
    IN IF ~p.ok THEN [ok |-> FALSE, err |-> "DeError: invalid url", url |-> NoUrl]
       ELSE IF CannotBeABase(p.url)
       THEN [ok |-> FALSE, err |-> "DeError: Url cannot be a base", url |-> NoUrl]
       ELSE [ok |-> TRUE, err |-> "", url |-> add_trailing_slash(p.url)]

\* mutant: Display writes the path and nothing else
Display_PathOnly(u) == u.path

\* impl Display for BaseUrl: the Display of the wrapped Url
Display(u) == Serialize(u)

\* impl From<BaseUrl> for Url: the wrapped Url is moved out
IntoUrl(u) == u

\* impl AsRef<Url> for BaseUrl
AsRefUrl(u) == u

\* impl AsRef<str> for BaseUrl
AsRefStr(u) == Serialize(u)

\* impl Deref for BaseUrl
Deref(u) == u

\* BaseUrl::append_path
append_path(u, path) ==
    IF CannotBeABase(u) THEN [ok |-> FALSE, url |-> u]
    ELSE [ok |-> TRUE,
          url |-> [u EXCEPT !.path =
                     Extend(PopIfEmpty(u.path),
                            SplitSlash(StripPrefixSlash(path)))]]

-----------------------------------------------------------------------------
(* Integers of duration.rs *)

\* A u64 (and a non-negative i64) is kept at its width as four 16-bit limbs,
\* least significant first; a u128 has a fifth limb, which is all the values
\* here need.
Zero64 == <<0, 0, 0, 0>>
MaxU64 == <<65535, 65535, 65535, 65535>>

\* the u64 of a small number
FromSmall(n) == <<n % 65536, n \div 65536, 0, 0>>

\* x * k + carry, one limb longer than x (k and carry are small)
RECURSIVE MulLimbs(_, _, _)
MulLimbs(x, k, carry) ==
    IF x = <<>> THEN <<carry>>
    ELSE LET v == Head(x) * k + carry
         IN <<v % 65536>> \o MulLimbs(Tail(x), k, v \div 65536)

\* the limbs 1..i of x divided by k, with r carried in from the limbs above
RECURSIVE DivFrom(_, _, _, _)
DivFrom(x, k, i, r) ==
    IF i = 0 THEN <<>>
    ELSE LET cur == r * 65536 + x[i]
         IN DivFrom(x, k, i - 1, cur % k) \o <<cur \div k>>

RECURSIVE RemFrom(_, _, _, _)
RemFrom(x, k, i, r) ==
    IF i = 0 THEN r
    ELSE RemFrom(x, k, i - 1, (r * 65536 + x[i]) % k)

\* x / k and x % k of Rust's unsigned integers
DivSmall(x, k) == DivFrom(x, k, Len(x), 0)
RemSmall(x, k) == RemFrom(x, k, Len(x), 0)

\* x + d at the width of x (wrapping)
AddSmall(x, d) == SubSeq(MulLimbs(x, 1, d), 1, Len(x))

\* the integer a limb sequence stands for, as serde writes it: no leading
\* zero limbs
RECURSIVE Num(_)
Num(x) ==
    IF x = <<>> \/ x[Len(x)] # 0 THEN x ELSE Num(SubSeq(x, 1, Len(x) - 1))

\* u64::deserialize of an integer that was written
U64Of(num) == [i \in 1 .. 4 |-> IF i <= Len(num) THEN num[i] ELSE 0]

\* mutant: the product saturates
MulU64_Saturating(x, k, checked) ==
    LET w == MulLimbs(x, k, 0)
    IN [panic |-> FALSE,
        value |-> IF w[5] # 0 THEN MaxU64 ELSE SubSeq(w, 1, 4)]

\* x * k on u64: on overflow the build with overflow checks panics, the one
\* without wraps modulo 2^64; no error value is produced
MulU64(x, k, checked) ==
    LET w == MulLimbs(x, k, 0)
    IN IF w[5] # 0 /\ checked
       THEN [panic |-> TRUE, value |-> Zero64]
       ELSE [panic |-> FALSE, value |-> SubSeq(w, 1, 4)]

-----------------------------------------------------------------------------
(* std::time::Duration and time::Duration *)

\* a duration of either type: whole seconds and the nanoseconds below one
Dur(s, n) == [secs |-> s, nanos |-> n]

\* std::time::Duration
from_secs(s) == Dur(s, 0)
from_millis(ms) == Dur(DivSmall(ms, 1000), RemSmall(ms, 1000) * 1000000)
as_secs(d) == d.secs
as_millis(d) == MulLimbs(d.secs, 1000, d.nanos \div 1000000)

\* time::Duration, on the non-negative numbers from_uint takes (u32), where
\* no product leaves i64
TimeSeconds(s) == Dur(s, 0)
TimeMinutes(m) == Dur(SubSeq(MulLimbs(m, 60, 0), 1, 4), 0)
TimeHours(h) == Dur(SubSeq(MulLimbs(h, 3600, 0), 1, 4), 0)
TimeMilliseconds(ms) == Dur(DivSmall(ms, 1000), RemSmall(ms, 1000) * 1000000)
whole_seconds(d) == d.secs
whole_minutes(d) == DivSmall(whole_seconds(d), 60)
whole_hours(d) == DivSmall(whole_seconds(d), 3600)
whole_milliseconds(d) == MulLimbs(d.secs, 1000, d.nanos \div 1000000)

\* what a call returns: a value, an error value, or no return at all
Ok(v) == [kind |-> "Ok", value |-> v]
Err(e) == [kind |-> "Err", value |-> e]
Panic == [kind |-> "panic", value |-> <<>>]

-----------------------------------------------------------------------------
(* duration.rs *)

\* Seconds<StdDuration>: the closures of the wrapper and from_uint
Seconds_Std_deserialize(n) == Ok(from_secs(n))
Seconds_Std_serialize(d) == Num(as_secs(d))
Seconds_Std_from_uint(s) == Ok(from_secs(s))

\* Seconds<TimeDuration>
Seconds_Time_deserialize(n) == Ok(TimeSeconds(n))
Seconds_Time_serialize(d) == Num(whole_seconds(d))
Seconds_Time_from_int(s) == Ok(TimeSeconds(s))
Seconds_Time_from_uint(s) == Seconds_Time_from_int(s)

\* Minutes<StdDuration>
Minutes_Std_deserialize(x, checked) ==
    LET p == MulU64(x, 60, checked)
    IN IF p.panic THEN Panic ELSE Ok(from_secs(p.value))

\* mutant: the seconds are written where the minutes belong
Minutes_Std_serialize_Seconds(d) == Num(as_secs(d))

Minutes_Std_serialize(d) == Num(DivSmall(as_secs(d), 60))

Minutes_Std_from_uint(m, checked) ==
    LET p == MulU64(m, 60, checked)
    IN IF p.panic THEN Panic ELSE Ok(from_secs(p.value))

\* Minutes<TimeDuration>
Minutes_Time_deserialize(n) == Ok(TimeMinutes(n))
Minutes_Time_serialize(d) == Num(whole_minutes(d))
Minutes_Time_from_int(m) == Ok(TimeMinutes(m))
Minutes_Time_from_uint(m) == Minutes_Time_from_int(m)

\* Hours<StdDuration>: x * 60 * 60 is two products
Hours_Std_deserialize(x, checked) ==
    LET p == MulU64(x, 60, checked)
        q == MulU64(p.value, 60, checked)
    IN IF p.panic \/ q.panic THEN Panic ELSE Ok(from_secs(q.value))

\* mutant: the seconds are divided by 60 once
Hours_Std_serialize_Minutes(d) == Num(DivSmall(as_secs(d), 60))

Hours_Std_serialize(d) == Num(DivSmall(DivSmall(as_secs(d), 60), 60))

Hours_Std_from_uint(h, checked) ==
    LET p == MulU64(h, 60, checked)
        q == MulU64(p.value, 60, checked)
    IN IF p.panic \/ q.panic THEN Panic ELSE Ok(from_secs(q.value))

\* Hours<TimeDuration>
Hours_Time_deserialize(n) == Ok(TimeHours(n))
Hours_Time_serialize(d) == Num(whole_hours(d))
Hours_Time_from_int(h) == Ok(TimeHours(h))
Hours_Time_from_uint(h) == Hours_Time_from_int(h)

\* Ms<StdDuration>
Ms_Std_deserialize(n) == Ok(from_millis(n))
Ms_Std_serialize(d) == Num(as_millis(d))
Ms_Std_from_uint(ms) == Ok(from_millis(ms))

\* Ms<TimeDuration>
Ms_Time_deserialize(n) == Ok(TimeMilliseconds(n))
Ms_Time_serialize(d) == Num(whole_milliseconds(d))
Ms_Time_from_int(ms) == Ok(TimeMilliseconds(ms))
Ms_Time_from_uint(ms) == Ms_Time_from_int(ms)

Units == {"Seconds", "Minutes", "Hours", "Ms"}
Reprs == {"StdDuration", "TimeDuration"}

\* impl Deserialize of the wrapper unit<repr>, given the integer n
DurationDeserialize(unit, repr, n, checked) ==
    CASE unit = "Seconds" /\ repr = "StdDuration" -> Seconds_Std_deserialize(n)
      [] unit = "Seconds" /\ repr = "TimeDuration" -> Seconds_Time_deserialize(n)
      [] unit = "Minutes" /\ repr = "StdDuration" -> Minutes_Std_deserialize(n, checked)
      [] unit = "Minutes" /\ repr = "TimeDuration" -> Minutes_Time_deserialize(n)
      [] unit = "Hours" /\ repr = "StdDuration" -> Hours_Std_deserialize(n, checked)
      [] unit = "Hours" /\ repr = "TimeDuration" -> Hours_Time_deserialize(n)
      [] unit = "Ms" /\ repr = "StdDuration" -> Ms_Std_deserialize(n)
      [] unit = "Ms" /\ repr = "TimeDuration" -> Ms_Time_deserialize(n)

\* impl Serialize of the wrapper unit<repr>: the integer written for d
DurationSerialize(unit, repr, d) ==
    CASE unit = "Seconds" /\ repr = "StdDuration" -> Seconds_Std_serialize(d)
      [] unit = "Seconds" /\ repr = "TimeDuration" -> Seconds_Time_serialize(d)
      [] unit = "Minutes" /\ repr = "StdDuration" -> Minutes_Std_serialize(d)
      [] unit = "Minutes" /\ repr = "TimeDuration" -> Minutes_Time_serialize(d)
      [] unit = "Hours" /\ repr = "StdDuration" -> Hours_Std_serialize(d)
      [] unit = "Hours" /\ repr = "TimeDuration" -> Hours_Time_serialize(d)
      [] unit = "Ms" /\ repr = "StdDuration" -> Ms_Std_serialize(d)
      [] unit = "Ms" /\ repr = "TimeDuration" -> Ms_Time_serialize(d)

\* unit<repr>::from_uint(n)
DurationFromUint(unit, repr, n, checked) ==
    CASE unit = "Seconds" /\ repr = "StdDuration" -> Seconds_Std_from_uint(n)
      [] unit = "Seconds" /\ repr = "TimeDuration" -> Seconds_Time_from_uint(n)
      [] unit = "Minutes" /\ repr = "StdDuration" -> Minutes_Std_from_uint(n, checked)
      [] unit = "Minutes" /\ repr = "TimeDuration" -> Minutes_Time_from_uint(n)
      [] unit = "Hours" /\ repr = "StdDuration" -> Hours_Std_from_uint(n, checked)
      [] unit = "Hours" /\ repr = "TimeDuration" -> Hours_Time_from_uint(n)
      [] unit = "Ms" /\ repr = "StdDuration" -> Ms_Std_from_uint(n)
      [] unit = "Ms" /\ repr = "TimeDuration" -> Ms_Time_from_uint(n)

-----------------------------------------------------------------------------
(* non_empty.rs *)

\* char::is_whitespace, on the characters the strings are made of
Whitespace == {" ", "\t"}

\* str::trim_start and str::trim_end
RECURSIVE TrimStart(_)
TrimStart(s) ==
    IF s # <<>> /\ Head(s) \in Whitespace THEN TrimStart(Tail(s)) ELSE s

RECURSIVE TrimEnd(_)
TrimEnd(s) ==
    IF s # <<>> /\ s[Len(s)] \in Whitespace
    THEN TrimEnd(SubSeq(s, 1, Len(s) - 1)) ELSE s

\* str::trim
Trim(s) == TrimEnd(TrimStart(s))

\* the Display of a NonEmptyError
Message(e) ==
    CASE e = "EmptyString" -> "string must be non-empty"
      [] e = "BlankString" -> "string must contain non-whitespace characters"
      [] e = "EmptyCollection" -> "collection must be non-empty"

\* serde::de::Error::custom
Custom(e) == [custom |-> Message(e)]

\* mutant: a string of whitespace only is refused too
NonEmptyString_new_NoBlank(s) ==
    IF Trim(s) = <<>> THEN Err("EmptyString") ELSE Ok([value |-> s])

\* NonEmptyString::new
NonEmptyString_new(s) ==
    IF Len(s) = 0 THEN Err("EmptyString") ELSE Ok([value |-> s])

\* NonEmptyString::as_str
NonEmptyString_as_str(v) == v.value

\* impl FromStr for NonEmptyString
NonEmptyString_from_str(s) == NonEmptyString_new(s)

\* mutant: the derived impl, which wraps whatever string it is given
NonEmptyString_deserialize_Derived(s) == Ok([value |-> s])

\* impl Deserialize for NonEmptyString
NonEmptyString_deserialize(s) ==
    LET r == NonEmptyString_new(s)
    IN IF r.kind = "Err" THEN Err(Custom(r.value)) ELSE r

\* derive(Serialize), serde(transparent): the inner string
NonEmptyString_serialize(v) == v.value

\* mutant: blankness is tested on the trimmed string, the untrimmed is kept
TrimmedNonEmptyString_new_Untrimmed(s) ==
    IF Len(Trim(s)) = 0 THEN Err("BlankString") ELSE Ok([value |-> s])

\* TrimmedNonEmptyString::new
TrimmedNonEmptyString_new(s) ==
    LET trimmed == Trim(s)
    IN IF Len(trimmed) = 0 THEN Err("BlankString")
       ELSE Ok([value |-> trimmed])

\* TrimmedNonEmptyString::as_str
TrimmedNonEmptyString_as_str(v) == v.value

\* impl FromStr for TrimmedNonEmptyString
TrimmedNonEmptyString_from_str(s) == TrimmedNonEmptyString_new(s)

\* impl Deserialize for TrimmedNonEmptyString
TrimmedNonEmptyString_deserialize(s) ==
    LET r == TrimmedNonEmptyString_new(s)
    IN IF r.kind = "Err" THEN Err(Custom(r.value)) ELSE r

\* derive(Serialize), serde(transparent): the inner string
TrimmedNonEmptyString_serialize(v) == v.value

-----------------------------------------------------------------------------
(* config.rs *)

\* the keys of the configuration and the values given to them
ConfigKeys == {"option", "extra"}
ConfigValues == {"a", "b", "c"}

\* the fields the configuration type cannot do without
RequiredKeys == {"option"}

\* the prefix try_parse_config is called with, and another one
ENV_PREFIX == "APP__"
OTHER_PREFIX == "OTHER__"

\* the environment variables: a prefix and the rest of the name
EnvNames ==
    {<<ENV_PREFIX, "OPTION">>, <<ENV_PREFIX, "EXTRA">>, <<OTHER_PREFIX, "OPTION">>}

\* Env lowercases what is left of a variable's name after the prefix
Lowercase(name) ==
    CASE name = "OPTION" -> "option"
      [] name = "EXTRA" -> "extra"

\* Figment::new(): no key has a value
EmptyDict == [k \in ConfigKeys |-> None]

\* Yaml::file(path): the keys of the file, none when the file does not exist
YamlFile(f) == IF f.exists THEN f.dict ELSE EmptyDict

\* Env::prefixed(prefix): the variables with the prefix, keyed by the
\* lowercased rest of their names
EnvPrefixed(env, prefix) ==
    [k \in ConfigKeys |->
        LET named == {n \in EnvNames : /\ env[n] # None
                                       /\ n[1] = prefix
                                       /\ Lowercase(n[2]) = k}
        IN IF named = {} THEN None ELSE env[CHOOSE n \in named : TRUE]]

\* Figment::merge: the provider merged in replaces the values of its keys
Merge(figment, provider) ==
    [k \in ConfigKeys |->
        IF provider[k] # None THEN provider[k] ELSE figment[k]]

\* Figment::extract: a required field without a value is an error
Extract(figment) ==
    IF \E k \in RequiredKeys : figment[k] = None THEN Err("missing field")
    ELSE Ok(figment)

\* mutant: config.yml is merged after config.yaml
try_parse_config_YmlLast(cwd, yml, yaml, env, env_prefix) ==
    Extract(Merge(IF cwd
                  THEN Merge(Merge(EmptyDict, YamlFile(yaml)), YamlFile(yml))
                  ELSE EmptyDict,
                  EnvPrefixed(env, env_prefix)))

\* fn try_parse_config; cwd is whether std::env::current_dir() succeeds
try_parse_config(cwd, yml, yaml, env, env_prefix) ==
    Extract(Merge(IF cwd
                  THEN Merge(Merge(EmptyDict, YamlFile(yml)), YamlFile(yaml))
                  ELSE EmptyDict,
                  EnvPrefixed(env, env_prefix)))

-----------------------------------------------------------------------------
(* level_filter.rs *)

\* the constants of tracing::level_filters::LevelFilter, from 0 to 5
Levels == <<"OFF", "ERROR", "WARN", "INFO", "DEBUG", "TRACE">>

\* their names, as Display writes them
LevelNames ==
    <<<<"o", "f", "f">>,
      <<"e", "r", "r", "o", "r">>,
      <<"w", "a", "r", "n">>,
      <<"i", "n", "f", "o">>,
      <<"d", "e", "b", "u", "g">>,
      <<"t", "r", "a", "c", "e">>>>

UpperCase == <<"A", "B", "C", "D", "E", "F", "G", "H", "I", "J", "K", "L", "M", "N", "O", "P", "Q", "R", "S", "T", "U", "V", "W", "X", "Y", "Z">>
LowerCase == <<"a", "b", "c", "d", "e", "f", "g", "h", "i", "j", "k", "l", "m", "n", "o", "p", "q", "r", "s", "t", "u", "v", "w", "x", "y", "z">>

\* u8::to_ascii_lowercase
ToAsciiLowercase(c) ==
    IF \E i \in 1 .. Len(UpperCase) : UpperCase[i] = c
    THEN LowerCase[CHOOSE i \in 1 .. Len(UpperCase) : UpperCase[i] = c]
    ELSE c

\* str::eq_ignore_ascii_case
EqIgnoreAsciiCase(s, t) ==
    /\ Len(s) = Len(t)
    /\ \A i \in 1 .. Len(s) : ToAsciiLowercase(s[i]) = ToAsciiLowercase(t[i])

Digits == <<"0", "1", "2", "3", "4", "5", "6", "7", "8", "9">>
DigitValue(c) == (CHOOSE i \in 1 .. Len(Digits) : Digits[i] = c) - 1

\* the number a string of digits stands for
RECURSIVE DecimalValue(_)
DecimalValue(s) ==
    IF s = <<>> THEN 0
    ELSE DecimalValue(SubSeq(s, 1, Len(s) - 1)) * 10 + DigitValue(s[Len(s)])

\* str::parse::<usize>: digits, after an optional '+'
ParseUsize(s) ==
    LET digits == IF s # <<>> /\ Head(s) = "+" THEN Tail(s) ELSE s
    IN IF digits = <<>> \/ \E i \in 1 .. Len(digits) :
                              \A j \in 1 .. Len(Digits) : Digits[j] # digits[i]
       THEN [ok |-> FALSE, value |-> 0]
       ELSE [ok |-> TRUE, value |-> DecimalValue(digits)]

\* tracing's LevelFilter::from_str: a number from 0 to 5, or else the empty
\* string (ERROR) or a name in any case
TracingFromStr(from) ==
    LET num == ParseUsize(from)
    IN IF num.ok /\ num.value <= 5 THEN Ok(Levels[num.value + 1])
       ELSE IF from = <<>> THEN Ok("ERROR")
       ELSE IF \E i \in 1 .. Len(LevelNames) : EqIgnoreAsciiCase(from, LevelNames[i])
       THEN Ok(Levels[CHOOSE i \in 1 .. Len(LevelNames) :
                          EqIgnoreAsciiCase(from, LevelNames[i])])
       ELSE Err("ParseLevelFilterError")

\* tracing's Display for LevelFilter
TracingDisplay(level) ==
    LevelNames[CHOOSE i \in 1 .. Len(Levels) : Levels[i] = level]

\* impl FromStr for LevelFilter
LevelFilter_from_str(s) ==
    LET r == TracingFromStr(s)
    IN IF r.kind = "Err" THEN r ELSE Ok([level |-> r.value])

\* impl Display for LevelFilter
LevelFilter_to_string(v) == TracingDisplay(v.level)

\* impl From<LevelFilter> for tracing::level_filters::LevelFilter
LevelFilter_into(v) == v.level

\* mutant: the name is written in capitals, as the constant is spelt
LevelFilter_serialize_Constant(v) ==
    LET name == TracingDisplay(v.level)
    IN [i \in 1 .. Len(name) |->
          IF \E j \in 1 .. Len(LowerCase) : LowerCase[j] = name[i]
          THEN UpperCase[CHOOSE j \in 1 .. Len(LowerCase) : LowerCase[j] = name[i]]
          ELSE name[i]]

\* impl Serialize for LevelFilter
LevelFilter_serialize(v) == LevelFilter_to_string(v)

\* impl Deserialize for LevelFilter
LevelFilter_deserialize(s) ==
    LET r == LevelFilter_from_str(s)
    IN IF r.kind = "Err" THEN Err([custom |-> r.value]) ELSE r

-----------------------------------------------------------------------------
(* lib.rs: GenericCombinators *)

\* The value chained is the S(usize) of the tests together with the number
\* of times a closure was run on it; the closures are S::inc and a doubling
\* (one argument), S::add and a multiplication (two arguments).
S(n) == [val |-> n, calls |-> 0]

Closure1(name, n) ==
    CASE name = "inc" -> n + 1
      [] name = "double" -> n * 2

Closure2(name, n, x) ==
    CASE name = "add" -> n + x
      [] name = "mul" -> n * x

\* f(self), for a closure of one argument
Call1(f, self) == [val |-> Closure1(f, self.val), calls |-> self.calls + 1]

\* f(self, x), for a closure of two arguments
Call2(f, self, x) == [val |-> Closure2(f, self.val, x), calls |-> self.calls + 1]

\* mutant: the closure is run whatever p is
chain_if_Always(self, p, f) == Call1(f, self)

\* GenericCombinators::chain_if
chain_if(self, p, f) == IF p THEN Call1(f, self) ELSE self

\* GenericCombinators::chain_opt
chain_opt(self, o, f) == IF o # None THEN Call2(f, self, o[1]) ELSE self

-----------------------------------------------------------------------------
(* reqwest.rs *)

\* StatusCode::is_client_error and StatusCode::is_server_error
IsClientError(status) == status >= 400 /\ status < 500
IsServerError(status) == status >= 500 /\ status < 600

\* mutant: only a client error is an error
error_for_status_ref_ClientOnly(response) ==
    IF IsClientError(response.status)
    THEN Err([kind |-> "status", status |-> response.status])
    ELSE Ok(response)

\* Response::error_for_status_ref
error_for_status_ref(response) ==
    IF IsClientError(response.status) \/ IsServerError(response.status)
    THEN Err([kind |-> "status", status |-> response.status])
    ELSE Ok(response)

\* Response::text().await.ok(): the body, when it could be read
TextOk(response) ==
    IF response.body.ok THEN Some(response.body.text) ELSE None

\* ErrorForStatusWithBody::error_for_status_with_body
error_for_status_with_body(self) ==
    LET r == error_for_status_ref(self)
    IN IF r.kind = "Err"
       THEN Err([error |-> r.value, body |-> TextOk(self)])
       ELSE Ok(self)

\* impl From<reqwest::Error> for ReqwestErrorWithBody
FromReqwestError(error) == [error |-> error, body |-> None]

\* impl Display for ReqwestErrorWithBody: the pieces written
ReqwestErrorWithBody_to_string(e) ==
    <<e.error, " with body ", IF e.body # None THEN e.body[1] ELSE "<no body>">>

-----------------------------------------------------------------------------
(* Inputs *)

RestAlphabet == {"a", ":", "/", "?", "#"}
Prefixes == {<<>>, HTTP \o <<":">>, MAILTO \o <<":">>}

\* the texts the constructors are checked on
AllTexts == {p \o r : p \in Prefixes, r \in SeqsUpTo(RestAlphabet, MaxRest)}

\* the texts BaseUrls are built from before paths are appended
BaseTexts ==
    {HTTP \o <<":">> \o r :
        r \in {<<"/", "/", "a">>, <<"/", "/", "a", "/", "a">>,
                <<"/", "/", "a", "/", "/">>,
                <<"/", "/", "a", "/", "a", "?", "a", "#", "a">>}}
    \cup {<<"a", ":", "/", "a">>, <<"a", ":", "/", "/", "a">>,
          <<"a", ":", "/", "/", "a", "/", "a", "/", "#">>,
          MAILTO \o <<":", "a">>, <<"a", ":", "a", "/">>, <<"/", "a">>}

\* the arguments append_path is called with
Args ==
    SeqsUpTo({"/", "a", "."}, 2)
    \cup {<<"?">>, <<"#">>, <<":">>, <<"@">>, <<"a", "/", "a">>,
          <<"/", "/", "a">>}

\* the integers the duration wrappers are checked on: small ones, the 567 of
\* the tests, those around one second in milliseconds, around the largest
\* u32 and u64, and around the largest u64 whose 60-fold and 3600-fold fit
NearQuotient(k) ==
    {AddSmall(DivSmall(<<65535 - k * MaxDelta, 65535, 65535, 65535>>, k), d) :
        d \in 0 .. 2 * MaxDelta}

DurationNumbers ==
    {FromSmall(i) : i \in 0 .. MaxSmall}
    \cup {FromSmall(567)}
    \cup {FromSmall(i) : i \in (1000 - MaxDelta) .. (1000 + MaxDelta)}
    \cup {<<65535 - d, 65535, 0, 0>> : d \in 0 .. MaxDelta}
    \cup {<<65535 - d, 65535, 65535, 65535>> : d \in 0 .. MaxDelta}
    \cup NearQuotient(60)
    \cup NearQuotient(3600)

\* from_uint of the time::Duration wrappers takes a u32
FitsU32(n) == n[3] = 0 /\ n[4] = 0

DurationParams ==
    {q \in [unit : Units, repr : Reprs, n : DurationNumbers] :
        q.repr = "TimeDuration" => FitsU32(q.n)}

\* the strings the non-empty strings are checked on
StrAlphabet == {"a", " ", "\t"}
Strings == SeqsUpTo(StrAlphabet, MaxStr)

\* what a configuration file or the environment can give the keys
Dicts == [ConfigKeys -> {None} \cup {Some(v) : v \in ConfigValues}]

\* a name in capitals, and with a capital first
Capitals(s) ==
    [i \in 1 .. Len(s) |->
        UpperCase[CHOOSE j \in 1 .. Len(LowerCase) : LowerCase[j] = s[i]]]
Capitalised(s) == <<Capitals(s)[1]>> \o Tail(s)

\* the strings the level filter is checked on: the six names in three
\* spellings, strings of digits, and strings that are no level filter
LevelTexts ==
    {LevelNames[i] : i \in 1 .. Len(LevelNames)}
    \cup {Capitals(LevelNames[i]) : i \in 1 .. Len(LevelNames)}
    \cup {Capitalised(LevelNames[i]) : i \in 1 .. Len(LevelNames)}
    \cup SeqsUpTo({"0", "3", "5", "6", "+"}, MaxDigits)
    \cup {<<"v", "e", "r", "b", "o", "s", "e">>, <<"w", "a", "r", "n", "i", "n", "g">>, <<"i", "n", "f">>, <<" ", "i", "n", "f", "o">>, <<"o", "f">>}

\* what chain_if and chain_opt are called with
ChainParams ==
    [x : 0 .. MaxVal,
     p : BOOLEAN,
     f1 : {"inc", "double"},
     o : {None} \cup {Some(v) : v \in 0 .. MaxVal},
     f2 : {"add", "mul"}]

\* the responses error_for_status_with_body is checked on, and the errors
\* of reqwest that are converted
StatusCodes == {100, 200, 204, 301, 399, 400, 404, 499, 500, 503, 599, 600, 999}
Bodies ==
    {[ok |-> FALSE, text |-> ""], [ok |-> TRUE, text |-> ""],
     [ok |-> TRUE, text |-> "not found"]}
Responses == [status : StatusCodes, body : Bodies]
ReqwestErrors ==
    {[kind |-> "connect", status |-> 0], [kind |-> "timeout", status |-> 0]}
ReqwestParams == [response : Responses, error : ReqwestErrors]

\* the durations whose wrappers are serialized: seconds that are small,
\* around one minute, one hour and two hours and the largest there are, with
\* and without nanoseconds
WrappedSeconds ==
    {FromSmall(i) : i \in 0 .. MaxSmall}
    \cup {FromSmall(k - MaxDelta + i) : k \in {60, 3600, 7200},
                                         i \in 0 .. 2 * MaxDelta}
    \cup {<<65535 - d, 65535, 65535, 65535>> : d \in 0 .. MaxDelta}

WrappedParams ==
    [unit : {"Seconds", "Minutes", "Hours"},
     d : {Dur(secs, n) : secs \in WrappedSeconds, n \in {0, 1, 999999999}}]

-----------------------------------------------------------------------------
(* The state machine *)

\* no pure function is called
NoCall ==
    /\ call = "none"
    /\ param = <<>>
    /\ result = <<>>

\* no BaseUrl is under construction
NoBaseUrl ==
    /\ text = <<>>
    /\ via = "none"
    /\ outcome = "none"
    /\ url = NoUrl
    /\ prev = NoUrl
    /\ arg = <<>>
    /\ ret = "none"
    /\ appends = 0

Fresh ==
    /\ NoCall
    /\ via = "none"
    /\ outcome = "none"
    /\ url = NoUrl
    /\ prev = NoUrl
    /\ arg = <<>>
    /\ ret = "none"
    /\ appends = 0

Init == text \in BaseTexts /\ Fresh

InitParse == text \in AllTexts /\ Fresh

Constructed(entry, r) ==
    /\ via = "none"
    /\ via' = entry
    /\ outcome' = IF r.ok THEN "ok" ELSE r.err
    /\ url' = r.url
    /\ UNCHANGED <<text, prev, arg, ret, appends>>
    /\ UNCHANGED callVars

\* text.parse::<BaseUrl>()
Parse == Constructed("parse", from_str(text))

\* BaseUrl::try_from(Url::parse(text).unwrap())
TryFrom ==
    UrlParse(text).ok /\ Constructed("try_from", TryFromUrl(UrlParse(text).url))

\* serde: BaseUrl deserialized from the string text
Deserialize ==
    Constructed("deserialize", deserialize_url_with_trailing_slash(text))

\* base_url.append_path(p)
AppendPath ==
    /\ outcome = "ok"
    /\ appends < MaxAppends
    /\ \E p \in Args :
          LET r == append_path(url, p)
          IN /\ url' = r.url
             /\ ret' = IF r.ok THEN "Ok" ELSE "Err"
             /\ prev' = url
             /\ arg' = p
    /\ appends' = appends + 1
    /\ UNCHANGED <<text, via, outcome>>
    /\ UNCHANGED callVars

Next == Parse \/ TryFrom \/ Deserialize \/ AppendPath

NextParse == Parse \/ TryFrom \/ Deserialize

Spec == Init /\ [][Next]_vars

SpecParse == InitParse /\ [][NextParse]_vars

-----------------------------------------------------------------------------
(* The duration wrappers: an integer is given to from_uint or to the
   deserializer, and the wrapper that comes back is serialized. *)

InitDuration ==
    /\ NoBaseUrl
    /\ call = "none"
    /\ param \in DurationParams
    /\ result = <<>>

\* unit<repr>::from_uint(n)
FromUint ==
    /\ call = "none"
    /\ call' = "from_uint"
    /\ \E checked \in BOOLEAN :
          result' = DurationFromUint(param.unit, param.repr, param.n, checked)
    /\ UNCHANGED param
    /\ UNCHANGED baseVars

\* serde: unit<repr> deserialized from the integer n
DeserializeDuration ==
    /\ call = "none"
    /\ call' = "deserialize"
    /\ \E checked \in BOOLEAN :
          result' = DurationDeserialize(param.unit, param.repr, param.n, checked)
    /\ UNCHANGED param
    /\ UNCHANGED baseVars

\* serde: the wrapper that was returned is serialized
SerializeDuration ==
    /\ call \in {"from_uint", "deserialize"}
    /\ result.kind = "Ok"
    /\ call' = "serialize"
    /\ result' = [kind |-> "Ok", value |-> result.value,
                  json |-> DurationSerialize(param.unit, param.repr, result.value)]
    /\ UNCHANGED param
    /\ UNCHANGED baseVars

NextDuration == FromUint \/ DeserializeDuration \/ SerializeDuration

SpecDuration == InitDuration /\ [][NextDuration]_vars

-----------------------------------------------------------------------------
(* The non-empty strings: a string is given to a constructor or to the
   deserializer, and the value that comes back is serialized. *)

InitNonEmpty ==
    /\ NoBaseUrl
    /\ call = "none"
    /\ param \in Strings
    /\ result = <<>>

\* the call named c returns r
Returned(c, r) ==
    /\ call = "none"
    /\ call' = c
    /\ result' = r
    /\ UNCHANGED param
    /\ UNCHANGED baseVars

NonEmptyNew == Returned("NonEmptyString::new", NonEmptyString_new(param))

NonEmptyFromStr ==
    Returned("NonEmptyString::from_str", NonEmptyString_from_str(param))

NonEmptyDeserialize ==
    Returned("NonEmptyString::deserialize", NonEmptyString_deserialize(param))

TrimmedNew ==
    Returned("TrimmedNonEmptyString::new", TrimmedNonEmptyString_new(param))

TrimmedFromStr ==
    Returned("TrimmedNonEmptyString::from_str",
             TrimmedNonEmptyString_from_str(param))

TrimmedDeserialize ==
    Returned("TrimmedNonEmptyString::deserialize",
             TrimmedNonEmptyString_deserialize(param))

NonEmptyCalls ==
    {"NonEmptyString::new", "NonEmptyString::from_str",
     "NonEmptyString::deserialize"}

TrimmedCalls ==
    {"TrimmedNonEmptyString::new", "TrimmedNonEmptyString::from_str",
     "TrimmedNonEmptyString::deserialize"}

\* serde: the NonEmptyString that was returned is serialized
NonEmptySerialize ==
    /\ call \in NonEmptyCalls
    /\ result.kind = "Ok"
    /\ call' = "NonEmptyString::serialize"
    /\ result' = [kind |-> "Ok", value |-> result.value,
                  json |-> NonEmptyString_serialize(result.value)]
    /\ UNCHANGED param
    /\ UNCHANGED baseVars

\* serde: the TrimmedNonEmptyString that was returned is serialized
TrimmedSerialize ==
    /\ call \in TrimmedCalls
    /\ result.kind = "Ok"
    /\ call' = "TrimmedNonEmptyString::serialize"
    /\ result' = [kind |-> "Ok", value |-> result.value,
                  json |-> TrimmedNonEmptyString_serialize(result.value)]
    /\ UNCHANGED param
    /\ UNCHANGED baseVars

NextNonEmpty ==
    \/ NonEmptyNew \/ NonEmptyFromStr \/ NonEmptyDeserialize
    \/ TrimmedNew \/ TrimmedFromStr \/ TrimmedDeserialize
    \/ NonEmptySerialize \/ TrimmedSerialize

SpecNonEmpty == InitNonEmpty /\ [][NextNonEmpty]_vars

-----------------------------------------------------------------------------
(* Configuration: the two files and the environment variables are created
   in any order, and try_parse_config reads what there is. *)

InitConfig ==
    /\ NoBaseUrl
    /\ call = "none"
    /\ param = [cwd |-> TRUE,
                yml |-> [exists |-> FALSE, dict |-> EmptyDict],
                yaml |-> [exists |-> FALSE, dict |-> EmptyDict],
                env |-> [n \in EnvNames |-> None]]
    /\ result = <<>>

\* the sources change to q; what was parsed before is out of date
SourcesBecome(q) ==
    /\ param' = q
    /\ call' = "none"
    /\ result' = <<>>
    /\ UNCHANGED baseVars

\* config.yml is written in the working directory
CreateYml ==
    \E d \in Dicts :
        SourcesBecome([param EXCEPT !.yml = [exists |-> TRUE, dict |-> d]])

\* config.yaml is written in the working directory
CreateYaml ==
    \E d \in Dicts :
        SourcesBecome([param EXCEPT !.yaml = [exists |-> TRUE, dict |-> d]])

\* an environment variable is set
SetEnv ==
    \E n \in EnvNames, v \in ConfigValues :
        SourcesBecome([param EXCEPT !.env[n] = Some(v)])

\* the working directory becomes inaccessible, or accessible again
ChangeCwd == SourcesBecome([param EXCEPT !.cwd = ~param.cwd])

\* try_parse_config(ENV_PREFIX)
TryParseConfig ==
    /\ call = "none"
    /\ call' = "try_parse_config"
    /\ result' = try_parse_config(param.cwd, param.yml, param.yaml, param.env,
                                  ENV_PREFIX)
    /\ UNCHANGED param
    /\ UNCHANGED baseVars

NextConfig == CreateYml \/ CreateYaml \/ SetEnv \/ ChangeCwd \/ TryParseConfig

SpecConfig == InitConfig /\ [][NextConfig]_vars

-----------------------------------------------------------------------------
(* The level filter: a string is parsed or deserialized, and the filter
   that comes back is serialized. *)

InitLevelFilter ==
    /\ NoBaseUrl
    /\ call = "none"
    /\ param \in LevelTexts
    /\ result = <<>>

LevelFilterFromStr ==
    Returned("LevelFilter::from_str", LevelFilter_from_str(param))

LevelFilterDeserialize ==
    Returned("LevelFilter::deserialize", LevelFilter_deserialize(param))

\* serde: the LevelFilter that was returned is serialized
LevelFilterSerialize ==
    /\ call \in {"LevelFilter::from_str", "LevelFilter::deserialize"}
    /\ result.kind = "Ok"
    /\ call' = "LevelFilter::serialize"
    /\ result' = [kind |-> "Ok", value |-> result.value,
                  json |-> LevelFilter_serialize(result.value)]
    /\ UNCHANGED param
    /\ UNCHANGED baseVars

NextLevelFilter ==
    LevelFilterFromStr \/ LevelFilterDeserialize \/ LevelFilterSerialize

SpecLevelFilter == InitLevelFilter /\ [][NextLevelFilter]_vars

-----------------------------------------------------------------------------
(* The combinators: S(x) is chained through chain_if or chain_opt. *)

InitChain ==
    /\ NoBaseUrl
    /\ call = "none"
    /\ param \in ChainParams
    /\ result = <<>>

\* S(x).chain_if(p, f1)
ChainIf == Returned("chain_if", chain_if(S(param.x), param.p, param.f1))

\* S(x).chain_opt(o, f2)
ChainOpt == Returned("chain_opt", chain_opt(S(param.x), param.o, param.f2))

NextChain == ChainIf \/ ChainOpt

SpecChain == InitChain /\ [][NextChain]_vars

-----------------------------------------------------------------------------
(* reqwest: a response is checked for its status, or an error of reqwest is
   converted; the error that comes back is displayed. *)

InitReqwest ==
    /\ NoBaseUrl
    /\ call = "none"
    /\ param \in ReqwestParams
    /\ result = <<>>

\* response.error_for_status_with_body().await
ErrorForStatusWithBody ==
    Returned("error_for_status_with_body",
             error_for_status_with_body(param.response))

\* ReqwestErrorWithBody::from(error), which the ? operator does
ConvertReqwestError ==
    Returned("from", Err(FromReqwestError(param.error)))

\* the ReqwestErrorWithBody that was returned is displayed
DisplayReqwestError ==
    /\ call \in {"error_for_status_with_body", "from"}
    /\ result.kind = "Err"
    /\ call' = "to_string"
    /\ result' = [kind |-> "Err", value |-> result.value,
                  text |-> ReqwestErrorWithBody_to_string(result.value)]
    /\ UNCHANGED param
    /\ UNCHANGED baseVars

NextReqwest ==
    ErrorForStatusWithBody \/ ConvertReqwestError \/ DisplayReqwestError

SpecReqwest == InitReqwest /\ [][NextReqwest]_vars

-----------------------------------------------------------------------------
(* Wrappers of any std::time::Duration: the wrapper unit(d) is serialized,
   and what was written is deserialized. *)

InitWrapped ==
    /\ NoBaseUrl
    /\ call = "none"
    /\ param \in WrappedParams
    /\ result = <<>>

\* serde: unit(d) is serialized
SerializeWrapped ==
    /\ call = "none"
    /\ call' = "serialize"
    /\ result' = [kind |-> "Ok", value |-> param.d,
                  json |-> DurationSerialize(param.unit, "StdDuration", param.d)]
    /\ UNCHANGED param
    /\ UNCHANGED baseVars

\* serde: the integer that was written is deserialized
DeserializeWritten ==
    /\ call = "serialize"
    /\ call' = "deserialize"
    /\ \E checked \in BOOLEAN :
          result' = DurationDeserialize(param.unit, "StdDuration",
                                        U64Of(result.json), checked)
    /\ UNCHANGED param
    /\ UNCHANGED baseVars

NextWrapped == SerializeWrapped \/ DeserializeWritten

SpecWrapped == InitWrapped /\ [][NextWrapped]_vars

-----------------------------------------------------------------------------
(* Properties *)

SlashFree(s) == "/" \notin CharsOf(s)
Join(p1, p2) == p1 \o <<"/">> \o p2

\* the state is the one an append_path call that returned Ok(()) left
Appended == outcome = "ok" /\ appends >= 1 /\ ret = "Ok"

\* C1 as stated: in every reachable state of a BaseUrl, also after append_path
\* calls, the path of the wrapped URL ends with '/'.
C1_PathAlwaysEndsWithSlash == outcome = "ok" => EndsWithSlash(url.path)

\* C1 amended: the path ends with '/' in every freshly constructed BaseUrl and
\* after every append_path call whose argument is empty or ends with '/'.
C1_SlashAfterConstructionOrSlashArg ==
    (outcome = "ok" /\ (appends = 0 \/ arg = <<>> \/ EndsWithSlash(arg)))
        => EndsWithSlash(url.path)

C1_Witness ==
    /\ Appended
    /\ appends = 2
    /\ ~EndsWithSlash(prev.path)
    /\ EndsWithSlash(arg)
    /\ EndsWithSlash(url.path)

\* C2: for every text that parses to a base-capable URL, construction succeeds
\* with the path of the parsed URL plus "/" when that path does not end with
\* '/', the same path when it does, and every other component as parsed.
C2_TrailingSlashNormalization ==
    LET p == UrlParse(text)
    IN (via = "parse" /\ p.ok /\ ~CannotBeABase(p.url))
        => /\ outcome = "ok"
           /\ url.path = IF EndsWithSlash(p.url.path) THEN p.url.path
                         ELSE p.url.path \o <<"/">>
           /\ url = [p.url EXCEPT !.path = url.path]

C2_Witness ==
    /\ via = "parse"
    /\ outcome = "ok"
    /\ UrlParse(text).url.path # <<>>
    /\ ~EndsWithSlash(UrlParse(text).url.path)
    /\ UrlParse(text).url.query # None
    /\ url.path = UrlParse(text).url.path \o <<"/">>

\* "." and ".." are the segments PathSegmentsMut::extend skips
DotSegment(s) == s \in {<<".">>, <<".", ".">>}

\* every '/'-separated component of p, after the leading '/' is stripped, is
\* skipped
AllSkipped(p) ==
    LET segs == SplitSlash(StripPrefixSlash(p))
    IN \A i \in 1..Len(segs) : DotSegment(segs[i])

EndsWithTwoSlashes(s) ==
    Len(s) >= 2 /\ s[Len(s)] = "/" /\ s[Len(s) - 1] = "/"

\* C3 as stated: on any reachable BaseUrl b, append_path(s1) then
\* append_path(s2) with slash-free s1 and s2 gives the URL that
\* append_path(s1 + "/" + s2) gives on b.
C3_AppendEquivalenceSegments ==
    (Appended /\ SlashFree(arg))
        => \A s2 \in {s \in Args : SlashFree(s)} :
              append_path(url, s2) = append_path(prev, Join(arg, s2))

\* C3 amended: the same, unless s1 is "." or ".." and the path of b ends with
\* "//".
C3_AppendEquivalenceSegmentsNoDot ==
    (Appended /\ SlashFree(arg)
        /\ ~(DotSegment(arg) /\ EndsWithTwoSlashes(prev.path)))
        => \A s2 \in {s \in Args : SlashFree(s)} :
              append_path(url, s2) = append_path(prev, Join(arg, s2))

C3_Witness ==
    /\ Appended
    /\ appends = 2
    /\ SlashFree(arg)
    /\ Len(arg) = 2
    /\ ~EndsWithSlash(prev.path)

C5_LeadingSlashInsensitive ==
    outcome = "ok"
        => \A s \in {a \in Args : ~StartsWithSlash(a)} :
              append_path(url, s) = append_path(url, <<"/">> \o s)

C5_Witness ==
    /\ Appended
    /\ StartsWithSlash(arg)
    /\ Len(arg) = 2
    /\ ~StartsWithSlash(Tail(arg))
    /\ url = append_path(prev, Tail(arg)).url

\* the URL that differs from u only in that its path has one more '/' at the end
WithSlash(u) == [u EXCEPT !.path = @ \o <<"/">>]

\* C6 as stated: for any two URLs that differ only in that one has path P and
\* the other P + "/", append_path(s) gives the same URL on both, for every s.
C6_TrailingSlashInsensitive ==
    outcome = "ok"
        => \A s \in Args : append_path(url, s) = append_path(WithSlash(url), s)

\* C6 amended: the same, for every BaseUrl whose path P does not end with '/'
\* or is the root "/".
C6_TrailingSlashInsensitiveSingle ==
    (outcome = "ok" /\ (~EndsWithSlash(url.path) \/ url.path = <<"/">>))
        => \A s \in Args : append_path(url, s) = append_path(WithSlash(url), s)

C6_Witness ==
    /\ Appended
    /\ ~EndsWithSlash(url.path)
    /\ url.query # None

\* a non-empty slash-free segment that percent-encoding leaves as it is
PlainSegment(s) ==
    s # <<>> /\ SlashFree(s) /\ CharsOf(s) \cap PATH_SEGMENT_SET = {}

\* C7 as stated: for a plain segment s, append_path(s) turns the string U of
\* the BaseUrl into U + s when U's path ends with '/' and into U's path + "/"
\* + s when it does not.
C7_AppendGivesUPlusS ==
    (Appended /\ PlainSegment(arg))
        => IF EndsWithSlash(prev.path)
           THEN Serialize(url) = Serialize(prev) \o arg
           ELSE url.path = prev.path \o <<"/">> \o arg

\* C7 amended: for a plain segment s other than "." and "..", append_path(s)
\* changes only the path P: to P + s when P ends with '/' and is not "//", to
\* "/" + s when P is "//", and to P + "/" + s when P does not end with '/'.
C7_AppendGivesPathPlusS ==
    (Appended /\ PlainSegment(arg) /\ arg \notin {<<".">>, <<".", ".">>})
        => url = [prev EXCEPT !.path =
                    IF @ = <<"/", "/">> THEN <<"/">> \o arg
                    ELSE IF EndsWithSlash(@) THEN @ \o arg
                    ELSE @ \o <<"/">> \o arg]

\* http://a/a is normalised to http://a/a/, and two appends of a give
\* http://a/a/a and then http://a/a/a/a
C7_Witness ==
    /\ Appended
    /\ text = HTTP \o <<":", "/", "/", "a", "/", "a">>
    /\ appends = 2
    /\ arg = <<"a">>
    /\ prev.path = <<"/", "a", "/", "a">>
    /\ Serialize(url) = HTTP \o <<":", "/", "/", "a", "/", "a", "/", "a", "/", "a">>

\* C8: append_path leaves scheme, host, query and fragment as they were, for
\* every argument: in the Url value, and in the URL its string parses to.
C8_AppendFrame ==
    Appended
        => /\ url = [prev EXCEPT !.path = url.path]
           /\ LET r == UrlParse(Serialize(url))
              IN /\ r.ok
                 /\ r.url.scheme = prev.scheme
                 /\ r.url.authority = prev.authority
                 /\ r.url.host = prev.host
                 /\ r.url.query = prev.query
                 /\ r.url.fragment = prev.fragment

C8_Witness ==
    /\ Appended
    /\ arg \in {<<"?">>, <<"#">>}
    /\ prev.query # None
    /\ prev.fragment # None
    /\ url.path # prev.path

\* C9: parse returns UrlParseError exactly when the text is not a URL,
\* IsNotBaseUrl exactly when it is a URL that cannot be a base, and succeeds
\* otherwise.
C9_ParseErrorClassification ==
    LET p == UrlParse(text)
    IN via = "parse"
        => /\ outcome = "UrlParseError" <=> ~p.ok
           /\ outcome = "IsNotBaseUrl" <=> (p.ok /\ CannotBeABase(p.url))
           /\ outcome = "ok" <=> (p.ok /\ ~CannotBeABase(p.url))

C9_Witness ==
    /\ via = "parse"
    /\ outcome = "IsNotBaseUrl"
    /\ text = MAILTO \o <<":", "a">>

\* C10: in every reachable state of a BaseUrl the wrapped URL can be a base.
C10_NeverCannotBeABase == outcome = "ok" => ~CannotBeABase(url)

C10_Witness ==
    /\ Appended
    /\ via = "deserialize"
    /\ appends = MaxAppends
    /\ ~url.authority
    /\ ~CannotBeABase(url)

\* C11: once a BaseUrl is constructed, every append_path call returns Ok,
\* whatever was appended before; on a parsed URL append_path returns Err
\* exactly when the URL cannot be a base, and then leaves it as it was.
C11_AppendNeverFails ==
    /\ appends >= 1 => ret = "Ok"
    /\ outcome = "ok" => \A p \in Args : append_path(url, p).ok
    /\ LET q == UrlParse(text)
       IN q.ok => \A p \in Args :
                    LET r == append_path(q.url, p)
                    IN /\ r.ok <=> ~CannotBeABase(q.url)
                       /\ ~r.ok => r.url = q.url

C11_Witness ==
    /\ appends = MaxAppends
    /\ ret = "Ok"
    /\ via = "deserialize"
    /\ text = <<"a", ":", "/", "a">>

\* C12: on every text the three entry points either all fail or all succeed
\* with equal values (try_from is given the parsed URL, so it counts as
\* failed when the text is not a URL); try_from fails with the unit error
\* exactly when the URL cannot be a base, deserialization fails with an error
\* value exactly when the text is not a URL or cannot be a base, and the
\* entry point that acted gave the result of parse.
C12_EntryPointsAgree ==
    LET q == UrlParse(text)
        f == from_str(text)
        d == deserialize_url_with_trailing_slash(text)
        t == IF q.ok THEN TryFromUrl(q.url)
             ELSE [ok |-> FALSE, err |-> "UrlParseError", url |-> NoUrl]
    IN /\ f.ok = d.ok /\ f.ok = t.ok
       /\ f.url = d.url /\ f.url = t.url
       /\ q.ok => (t.err = "Err" <=> CannotBeABase(q.url))
       /\ q.ok => (~t.ok <=> CannotBeABase(q.url))
       /\ ~d.ok <=> (~q.ok \/ CannotBeABase(q.url))
       /\ ~d.ok => d.err \in {"DeError: invalid url",
                              "DeError: Url cannot be a base"}
       /\ via # "none" => /\ (outcome = "ok") = f.ok
                          /\ url = f.url

\* "http://a" deserializes to "http://a/"
C12_Witness ==
    /\ via = "deserialize"
    /\ outcome = "ok"
    /\ text = HTTP \o <<":", "/", "/", "a">>
    /\ Serialize(url) = HTTP \o <<":", "/", "/", "a", "/">>
    /\ from_str(text).url = url

\* C13: parsing is idempotent: the string form of a parsed BaseUrl parses
\* again, to an equal BaseUrl.
C13_ParseIdempotent ==
    (via = "parse" /\ outcome = "ok")
        => /\ from_str(Serialize(url)).ok
           /\ from_str(Serialize(url)).url = url

C13_Witness ==
    /\ via = "parse"
    /\ outcome = "ok"
    /\ text = HTTP \o <<":", "/", "/", "a", "?">>
    /\ Serialize(url) = HTTP \o <<":", "/", "/", "a", "/", "?">>
    /\ from_str(Serialize(url)).url = url

\* C14 as stated: in every reachable state of a BaseUrl, also after
\* append_path calls, the serialized string has a path ending with '/' and
\* deserializes to an equal BaseUrl.
C14_SerializationRoundTrip ==
    outcome = "ok"
        => /\ EndsWithSlash(url.path)
           /\ deserialize_url_with_trailing_slash(Serialize(url)).ok
           /\ deserialize_url_with_trailing_slash(Serialize(url)).url = url

\* C14 amended: the serialized string of a BaseUrl always deserializes; what
\* comes back is the BaseUrl with '/' added to its path when the path does
\* not end with one, so it is equal to the BaseUrl exactly when its path ends
\* with '/', which is so in every freshly constructed BaseUrl.
C14_RoundTripUpToTrailingSlash ==
    LET d == deserialize_url_with_trailing_slash(Serialize(url))
    IN outcome = "ok"
        => /\ d.ok
           /\ d.url = IF EndsWithSlash(url.path) THEN url ELSE WithSlash(url)
           /\ d.url = url <=> EndsWithSlash(url.path)
           /\ appends = 0 => d.url = url

C14_Witness ==
    /\ Appended
    /\ arg = <<"a">>
    /\ ~EndsWithSlash(url.path)
    /\ deserialize_url_with_trailing_slash(Serialize(url)).url = WithSlash(url)

ScaleOf(unit) ==
    CASE unit = "Minutes" -> 60
      [] unit = "Hours" -> 3600
      [] OTHER -> 1

\* n of the unit, in seconds, without a width
Scaled(unit, n) == MulLimbs(n, ScaleOf(unit), 0)

\* n of the unit is more seconds than a u64 holds
ScaledOverflows(unit, repr, n) ==
    /\ repr = "StdDuration"
    /\ unit \in {"Minutes", "Hours"}
    /\ Scaled(unit, n)[5] # 0

\* C16: Minutes and Hours over std::time::Duration, given x by from_uint or
\* by deserialization: when x * 60 (x * 3600) is above 2^64 - 1 there is no
\* error value and no duration of x minutes (hours); the call panics or
\* returns the product wrapped modulo 2^64; for smaller x it returns exactly
\* x * 60 (x * 3600) seconds.
C16_MinutesHoursOverflow ==
    (/\ call \in {"from_uint", "deserialize"}
     /\ param.repr = "StdDuration"
     /\ param.unit \in {"Minutes", "Hours"})
        => LET w == Scaled(param.unit, param.n)
           IN IF w[5] # 0
              THEN /\ result.kind \in {"panic", "Ok"}
                   /\ result.kind = "Ok"
                        => /\ result.value = from_secs(SubSeq(w, 1, 4))
                           /\ Num(as_secs(result.value)) # Num(w)
              ELSE /\ result.kind = "Ok"
                   /\ result.value.nanos = 0
                   /\ Num(as_secs(result.value)) = Num(w)

\* Minutes of 2^64 - 1 deserialized without overflow checks: 2^64 - 60 seconds
C16_Witness ==
    /\ call = "deserialize"
    /\ param.repr = "StdDuration"
    /\ param.unit = "Minutes"
    /\ param.n = MaxU64
    /\ ScaledOverflows(param.unit, param.repr, param.n)
    /\ result.kind = "Ok"
    /\ as_secs(result.value) = <<65476, 65535, 65535, 65535>>

\* C17: for every wrapper and every n whose scaled value does not overflow,
\* the wrapper from_uint(n) or deserialized from n serializes to the integer
\* n, and deserializing n gives what from_uint(n) gives.
C17_DurationRoundTrip ==
    (call # "none" /\ ~ScaledOverflows(param.unit, param.repr, param.n))
        => /\ result.kind = "Ok"
           /\ call = "serialize" => result.json = Num(param.n)
           /\ \A checked \in BOOLEAN :
                /\ DurationFromUint(param.unit, param.repr, param.n, checked)
                     = Ok(result.value)
                /\ DurationDeserialize(param.unit, param.repr, param.n, checked)
                     = Ok(result.value)

\* Hours::from_uint(567) is 2041200 seconds and serializes to 567
C17_Witness ==
    /\ call = "serialize"
    /\ param.unit = "Hours"
    /\ param.repr = "StdDuration"
    /\ param.n = FromSmall(567)
    /\ Num(as_secs(result.value)) = <<9584, 31>>
    /\ result.json = <<567>>

\* s consists of whitespace only (the empty string does)
Blank(s) == \A i \in 1 .. Len(s) : s[i] \in Whitespace

\* t is s without the whitespace at its two ends
IsTrimOf(t, s) ==
    /\ t # <<>>
    /\ t[1] \notin Whitespace
    /\ t[Len(t)] \notin Whitespace
    /\ \E i \in 0 .. Len(s) :
          /\ SubSeq(s, i + 1, i + Len(t)) = t
          /\ Blank(SubSeq(s, 1, i))
          /\ Blank(SubSeq(s, i + Len(t) + 1, Len(s)))

\* C18: NonEmptyString::new and from_str return Err(EmptyString) exactly when
\* the string has length 0 and otherwise a value whose as_str is the string
\* unchanged, whitespace included; every NonEmptyString has length >= 1.
C18_NonEmptyStringNew ==
    /\ call \in {"NonEmptyString::new", "NonEmptyString::from_str"}
        => /\ result.kind = "Err" <=> Len(param) = 0
           /\ result.kind = "Err" => result.value = "EmptyString"
           /\ result.kind # "Err"
                => /\ result.kind = "Ok"
                   /\ NonEmptyString_as_str(result.value) = param
    /\ (call \in NonEmptyCalls \cup {"NonEmptyString::serialize"}
        /\ result.kind = "Ok")
        => Len(NonEmptyString_as_str(result.value)) >= 1

\* a string of whitespace only is accepted as it is
C18_Witness ==
    /\ call = "NonEmptyString::new"
    /\ param = <<" ", "\t">>
    /\ result.kind = "Ok"
    /\ NonEmptyString_as_str(result.value) = <<" ", "\t">>

\* C19: TrimmedNonEmptyString::new and from_str return Err(BlankString) exactly
\* when the string is whitespace only (the empty string too) and otherwise a
\* value whose as_str is the string without the whitespace at its ends; that
\* is non-empty, starts and ends with a non-whitespace character, and
\* validates to an equal value.
C19_TrimmedNonEmptyStringNew ==
    /\ call \in {"TrimmedNonEmptyString::new", "TrimmedNonEmptyString::from_str"}
        => /\ result.kind = "Err" <=> Blank(param)
           /\ result.kind = "Err" => result.value = "BlankString"
           /\ result.kind # "Err"
                => /\ result.kind = "Ok"
                   /\ IsTrimOf(TrimmedNonEmptyString_as_str(result.value), param)
    /\ (call \in TrimmedCalls \cup {"TrimmedNonEmptyString::serialize"}
        /\ result.kind = "Ok")
        => LET t == TrimmedNonEmptyString_as_str(result.value)
           IN /\ IsTrimOf(t, t)
              /\ TrimmedNonEmptyString_new(t) = Ok(result.value)
              /\ TrimmedNonEmptyString_from_str(t) = Ok(result.value)

C19_Witness ==
    /\ call = "TrimmedNonEmptyString::new"
    /\ param = <<" ", "a", " ", "a">>
    /\ result.kind = "Ok"
    /\ TrimmedNonEmptyString_as_str(result.value) = <<"a", " ", "a">>

\* C20: deserializing a string into NonEmptyString (TrimmedNonEmptyString)
\* succeeds exactly when new does and gives the value new gives; the empty
\* (blank) string is a deserialization error; serializing writes the inner
\* string, which is the trimmed text for a TrimmedNonEmptyString, and that
\* string deserializes to the value again.
C20_DeserializeValidates ==
    /\ call = "NonEmptyString::deserialize"
        => /\ result.kind = "Ok" <=> NonEmptyString_new(param).kind = "Ok"
           /\ result.kind = "Ok" => result = NonEmptyString_new(param)
           /\ result.kind # "Ok"
                => /\ Len(param) = 0
                   /\ result = Err(Custom("EmptyString"))
    /\ call = "TrimmedNonEmptyString::deserialize"
        => /\ result.kind = "Ok" <=> TrimmedNonEmptyString_new(param).kind = "Ok"
           /\ result.kind = "Ok" => result = TrimmedNonEmptyString_new(param)
           /\ result.kind # "Ok"
                => /\ Blank(param)
                   /\ result = Err(Custom("BlankString"))
    /\ call = "NonEmptyString::serialize"
        => /\ result.json = param
           /\ NonEmptyString_deserialize(result.json) = Ok(result.value)
    /\ call = "TrimmedNonEmptyString::serialize"
        => /\ IsTrimOf(result.json, param)
           /\ result.json = TrimmedNonEmptyString_as_str(result.value)
           /\ TrimmedNonEmptyString_deserialize(result.json) = Ok(result.value)

C20_Witness ==
    /\ call = "TrimmedNonEmptyString::deserialize"
    /\ param = <<" ", "\t">>
    /\ result = Err(Custom("BlankString"))
    /\ NonEmptyString_deserialize(param).kind = "Ok"

\* the value the environment gives key k under the prefix of the call
FromEnv(k) ==
    CASE k = "option" -> param.env[<<ENV_PREFIX, "OPTION">>]
      [] k = "extra" -> param.env[<<ENV_PREFIX, "EXTRA">>]

\* the value file f gives key k
FromFile(f, k) == IF f.exists THEN f.dict[k] ELSE None

\* the value of the highest-priority source that defines k:
\* environment > config.yaml > config.yml
Highest(k) ==
    IF FromEnv(k) # None THEN FromEnv(k)
    ELSE IF FromFile(param.yaml, k) # None THEN FromFile(param.yaml, k)
    ELSE FromFile(param.yml, k)

\* C21: with the working directory accessible, try_parse_config gives every
\* key the value of the highest-priority source that defines it, environment
\* > config.yaml > config.yml, in whatever order the sources were created,
\* and fails only when no source defines a required key; without a working
\* directory the files are ignored and the environment alone counts.
C21_ConfigPriority ==
    call = "try_parse_config"
        => /\ param.cwd
                => /\ result.kind = "Ok"
                        <=> \A k \in RequiredKeys : Highest(k) # None
                   /\ result.kind = "Ok"
                        => \A k \in ConfigKeys : result.value[k] = Highest(k)
           /\ ~param.cwd
                => /\ result.kind = "Ok"
                        <=> \A k \in RequiredKeys : FromEnv(k) # None
                   /\ result.kind = "Ok"
                        => \A k \in ConfigKeys : result.value[k] = FromEnv(k)

\* option is c in config.yml, b in config.yaml and a in the environment;
\* extra is defined in config.yml only
C21_Witness ==
    /\ call = "try_parse_config"
    /\ param.cwd
    /\ FromFile(param.yml, "option") = Some("c")
    /\ FromFile(param.yaml, "option") = Some("b")
    /\ FromEnv("option") = Some("a")
    /\ FromFile(param.yml, "extra") = Some("c")
    /\ FromFile(param.yaml, "extra") = None
    /\ FromEnv("extra") = None
    /\ param.env[<<OTHER_PREFIX, "OPTION">>] = Some("b")
    /\ result.kind = "Ok"
    /\ result.value["option"] = Some("a")
    /\ result.value["extra"] = Some("c")

\* C22: each of the six names off, error, warn, info, debug, trace
\* deserializes to the tracing level filter of that name, which serializes
\* to the same lowercase name; deserialization fails, with an error value,
\* exactly on the strings tracing does not parse as a level filter.
C22_LevelFilterRoundTrip ==
    /\ call = "LevelFilter::deserialize"
        => /\ \A i \in 1 .. Len(LevelNames) :
                param = LevelNames[i]
                    => /\ result.kind = "Ok"
                       /\ LevelFilter_into(result.value) = Levels[i]
           /\ result.kind = "Err" <=> TracingFromStr(param).kind = "Err"
           /\ result.kind = "Err"
                => result.value = [custom |-> "ParseLevelFilterError"]
    /\ call = "LevelFilter::serialize"
        => /\ \E i \in 1 .. Len(LevelNames) :
                /\ LevelFilter_into(result.value) = Levels[i]
                /\ result.json = LevelNames[i]
           /\ (\E i \in 1 .. Len(LevelNames) : param = LevelNames[i])
                => result.json = param

C22_Witness ==
    /\ call = "LevelFilter::serialize"
    /\ param = <<"i", "n", "f", "o">>
    /\ LevelFilter_into(result.value) = "INFO"
    /\ result.json = <<"i", "n", "f", "o">>
    /\ LevelFilter_deserialize(<<"i", "n", "f">>).kind = "Err"

\* C23: x.chain_if(p, f) is f(x), with f run once, when p is true, and x
\* with f not run when p is false; x.chain_opt(o, f) is f(x, v), with f run
\* once, when o is Some(v), and x with f not run when o is None.
C23_ConditionalChaining ==
    /\ call = "chain_if"
        => IF param.p
           THEN /\ result.val = Closure1(param.f1, param.x)
                /\ param.f1 = "inc" => result.val = param.x + 1
                /\ result.calls = 1
           ELSE /\ result.val = param.x
                /\ result.calls = 0
    /\ call = "chain_opt"
        => IF param.o # None
           THEN /\ result.val = Closure2(param.f2, param.x, param.o[1])
                /\ param.f2 = "add" => result.val = param.x + param.o[1]
                /\ result.calls = 1
           ELSE /\ result.val = param.x
                /\ result.calls = 0

\* S(1).chain_if(false, S::inc) is S(1), and S::inc was not run
C23_Witness ==
    /\ call = "chain_if"
    /\ param.x = 1
    /\ ~param.p
    /\ param.f1 = "inc"
    /\ result.val = 1
    /\ result.calls = 0
    /\ chain_opt(S(1), Some(1), "add").val = 2

\* C24: error_for_status_with_body returns Ok with the response it was given
\* exactly when the status is not 4xx or 5xx; for 4xx and 5xx it returns Err
\* with the status error and the body, Some(text) when the body could be
\* read and None when not; an error converted from a reqwest error has no
\* body and is displayed with "<no body>".
C24_ErrorForStatusWithBody ==
    /\ call = "error_for_status_with_body"
        => LET status == param.response.status
               isError == status \in 400 .. 599
           IN /\ result.kind = "Ok" <=> ~isError
              /\ result.kind = "Err" <=> isError
              /\ result.kind = "Ok" => result.value = param.response
              /\ result.kind = "Err"
                   => /\ result.value.error.kind = "status"
                      /\ result.value.error.status = status
                      /\ param.response.body.ok
                           => result.value.body = Some(param.response.body.text)
                      /\ ~param.response.body.ok => result.value.body = None
    /\ call = "from"
        => /\ result.value.error = param.error
           /\ result.value.body = None
    /\ call = "to_string"
        => /\ result.text[1] = result.value.error
           /\ result.value.body = None <=> result.text[3] = "<no body>"
           /\ result.value.error = param.error => result.text[3] = "<no body>"

\* a 503 whose body cannot be read: the error, without a body
C24_Witness ==
    /\ call = "to_string"
    /\ param.response.status = 503
    /\ ~param.response.body.ok
    /\ result.value.error = [kind |-> "status", status |-> 503]
    /\ result.value.body = None
    /\ result.text[3] = "<no body>"

\* the segments of a path: what stands between its slashes, after the first
Segments(path) == SplitSlash(Tail(path))

\* the segments an append_path call adds to: those of the path, less an
\* empty last one
KeptSegments(path) ==
    LET segs == Segments(path)
    IN IF segs[Len(segs)] = <<>> THEN SubSeq(segs, 1, Len(segs) - 1) ELSE segs

\* C25 as stated: on any BaseUrl append_path("//a") appends an empty segment
\* followed by a, and so gives another URL than append_path("/a") and
\* append_path("a"); append_path("a/a") appends exactly the two segments a
\* and a.
C25_DoubleSlashAppendsEmptySegment ==
    /\ (Appended /\ arg = <<"/", "/", "a">>)
        => /\ Segments(url.path) = KeptSegments(prev.path) \o <<<<>>, <<"a">>>>
           /\ url # append_path(prev, <<"/", "a">>).url
           /\ url # append_path(prev, <<"a">>).url
    /\ (Appended /\ arg = <<"a", "/", "a">>)
        => Segments(url.path) = KeptSegments(prev.path) \o <<<<"a">>, <<"a">>>>

\* C25 amended: when the path, after the removal of one trailing '/', is
\* longer than the root "/", append_path("//a") adds "//a" to it (an empty
\* segment, then a) and gives another URL than append_path("/a") and
\* append_path("a"), and append_path("a/a") adds "/a/a"; on the root the
\* empty segment leaves no trace: append_path("//a") gives the path "/a", as
\* append_path("/a") and append_path("a") do, and append_path("a/a") gives
\* "/a/a".
C25_DoubleSlashOffTheRoot ==
    LET popped == PopIfEmpty(prev.path)
    IN /\ (Appended /\ arg = <<"/", "/", "a">>)
           => IF Len(popped) > 1
              THEN /\ url.path = popped \o <<"/", "/", "a">>
                   /\ url # append_path(prev, <<"/", "a">>).url
                   /\ url # append_path(prev, <<"a">>).url
              ELSE /\ url.path = <<"/", "a">>
                   /\ url = append_path(prev, <<"/", "a">>).url
                   /\ url = append_path(prev, <<"a">>).url
       /\ (Appended /\ arg = <<"a", "/", "a">>)
           => IF Len(popped) > 1
              THEN url.path = popped \o <<"/", "a", "/", "a">>
              ELSE url.path = <<"/", "a", "/", "a">>

C25_Witness ==
    /\ Appended
    /\ arg = <<"/", "/", "a">>
    /\ prev.path = <<"/", "a", "/">>
    /\ url.path = <<"/", "a", "/", "/", "a">>
    /\ append_path(prev, <<"/", "a">>).url.path = <<"/", "a", "/", "a">>

\* the components of an append_path argument
Components(a) == SplitSlash(StripPrefixSlash(a))

\* the components that extend does not skip
RECURSIVE NotDots(_)
NotDots(comps) ==
    IF comps = <<>> THEN <<>>
    ELSE (IF DotSegment(Head(comps)) THEN <<>> ELSE <<Head(comps)>>)
         \o NotDots(Tail(comps))

RECURSIVE DropLeadingEmpties(_)
DropLeadingEmpties(segs) ==
    IF segs # <<>> /\ Head(segs) = <<>> THEN DropLeadingEmpties(Tail(segs))
    ELSE segs

\* arguments with a space in them
ReservedArgs == {<<" ">>, <<"a", " ", "?">>, <<"#", "/", " ">>}

\* append_path(a) on before gives after, and in after every component of a
\* is one segment more
GrowsByComponents(before, a, after) ==
    /\ Len(Segments(after.path))
         = Len(KeptSegments(before.path)) + Len(Components(a))
    /\ after.query = before.query
    /\ after.fragment = before.fragment
    /\ \A i \in 1 .. Len(Segments(after.path)) :
          CharsOf(Segments(after.path)[i]) \cap {"?", "#", " "} = {}

\* append_path(a) on before gives after, and in after every component of a
\* that is not skipped is one segment more, percent-encoded, except for
\* leading empty components on the root
AppendedLiterally(before, a, after) ==
    LET popped == PopIfEmpty(before.path)
        comps == NotDots(Components(a))
        enc == [i \in 1 .. Len(comps) |-> PercentEncode(comps[i], PATH_SEGMENT_SET)]
        segs == Segments(after.path)
    IN /\ IF Len(popped) > 1
          THEN /\ segs = Segments(popped) \o enc
               /\ Len(segs) = Len(KeptSegments(before.path)) + Len(comps)
          ELSE segs = IF DropLeadingEmpties(enc) = <<>> THEN <<<<>>>>
                      ELSE DropLeadingEmpties(enc)
       /\ after.query = before.query
       /\ after.fragment = before.fragment
       /\ CharsOf(Tail(after.path)) \cap {"?", "#", " "} = {}

\* C26 as stated: every '/'-separated component given to append_path becomes
\* one path segment, with '?', '#' and the space encoded, so that no query or
\* fragment starts and the number of segments grows by the number of
\* components.
C26_SegmentsGrowByComponents ==
    /\ Appended => GrowsByComponents(prev, arg, url)
    /\ outcome = "ok"
        => \A a \in ReservedArgs :
              GrowsByComponents(url, a, append_path(url, a).url)

\* C26 amended: every component other than "." and ".." becomes one path
\* segment, with '?', '#' and the space encoded, so that no query or fragment
\* starts and no segment is split; "." and ".." are skipped, and on the root
\* "/" leading empty components add nothing.
C26_ComponentsAppendedLiterally ==
    /\ Appended => AppendedLiterally(prev, arg, url)
    /\ outcome = "ok"
        => \A a \in ReservedArgs :
              AppendedLiterally(url, a, append_path(url, a).url)

C26_Witness ==
    /\ Appended
    /\ arg = <<"?">>
    /\ prev.path = <<"/", "a", "/">>
    /\ prev.query # None
    /\ url.path = <<"/", "a", "/", "%", "3", "F">>
    /\ url.query = prev.query
    /\ append_path(url, <<" ">>).url.path
         = <<"/", "a", "/", "%", "3", "F", "/", "%", "2", "0">>

\* C27 as stated: append_path("") and append_path("/") leave a URL whose
\* path ends with '/' unchanged and add one '/' to a path that does not end
\* with '/'.
C27_AppendEmptyKeepsOrAddsSlash ==
    (Appended /\ arg \in {<<>>, <<"/">>})
        => /\ EndsWithSlash(prev.path) => url = prev
           /\ ~EndsWithSlash(prev.path) => url = WithSlash(prev)

\* C27 amended: append_path("") and append_path("/") leave a URL whose path
\* ends with '/' unchanged, except for the path "//", which becomes "/", and
\* add one '/' to a path that does not end with '/'; the path ends with '/'
\* afterwards in every case.
C27_AppendEmptyExceptDoubleSlash ==
    (Appended /\ arg \in {<<>>, <<"/">>})
        => /\ EndsWithSlash(url.path)
           /\ url = append_path(prev, <<>>).url
           /\ (EndsWithSlash(prev.path) /\ prev.path # <<"/", "/">>)
                => url = prev
           /\ prev.path = <<"/", "/">> => url = [prev EXCEPT !.path = <<"/">>]
           /\ ~EndsWithSlash(prev.path) => url = WithSlash(prev)

C27_Witness ==
    /\ Appended
    /\ arg = <<>>
    /\ appends = 2
    /\ prev.path = <<"/", "a", "/", "a">>
    /\ url.path = <<"/", "a", "/", "a", "/">>

\* C28: Seconds, Minutes and Hours over std::time::Duration serialize to
\* whole units, rounded down, so deserializing what was serialized gives the
\* duration rounded down to the unit: the duration itself exactly when it is
\* a whole multiple of the unit.
C28_SerializeTruncates ==
    LET k == ScaleOf(param.unit)
        d == param.d
        whole == d.nanos = 0 /\ RemSmall(as_secs(d), k) = 0
    IN /\ call = "serialize"
           => /\ Scaled(param.unit, U64Of(result.json))[5] = 0
              /\ AddSmall(SubSeq(Scaled(param.unit, U64Of(result.json)), 1, 4),
                           RemSmall(as_secs(d), k)) = as_secs(d)
       /\ call = "deserialize"
           => /\ result.kind = "Ok"
              /\ result.value = d <=> whole
              /\ result.value.nanos = 0
              /\ RemSmall(as_secs(result.value), k) = 0
              /\ AddSmall(as_secs(result.value), RemSmall(as_secs(d), k))
                   = as_secs(d)

\* Hours of 7201 seconds and a nanosecond: 2 is written, and 7200 seconds
\* come back
C28_Witness ==
    /\ call = "deserialize"
    /\ param.unit = "Hours"
    /\ param.d = Dur(FromSmall(7201), 1)
    /\ result.kind = "Ok"
    /\ result.value = Dur(FromSmall(7200), 0)

====
